---- MODULE Spec2Model ----
(***************************************************************************)
(* Model of docs/tunein.py: the favourites traversal (lines 54-81) and the *)
(* two lookups it makes, get_stream (36-44) and get_pod_info (46-52).      *)
(*                                                                         *)
(* The JSON answers of the directory service are the inputs.  They are     *)
(* read once, front to back, so each piece is drawn from a bounded set at  *)
(* the step that reads it.                                                 *)
(*                                                                         *)
(* Encoding of JSON values                                                 *)
(*   None        Python's None (what dict.get gives for an absent key)     *)
(*   GuideId     a string; None when absent, "" when empty                 *)
(*   SEOInfo     None, Empty (the dict {}), or the dict's Title            *)
(*   ContentInfo None, Empty (the dict {}), or the dict's Type             *)
(*   List/Gallery [tag, key]: tag "absent" (no such key), "empty" (the     *)
(*               key holds null or {}), "obj" (a container with Items)     *)
(*   child item  the sequence of the values of its properties whose name   *)
(*               ends with 'Cell', in property order                       *)
(***************************************************************************)
EXTENDS Integers, Sequences, FiniteSets

VARIABLES pc, ei, ci, item, list, ite, cell, id, out, called, pod_info,
          stream_data, ret

vars == <<pc, ei, ci, item, list, ite, cell, id, out, called, pod_info,
          stream_data, ret>>

\* ---------------------------------------------------------------- bounds
MaxEntries == 2
MaxItems == 2
MaxCand == 2
MaxPodItems == 2

\* ------------------------------------------------------------ JSON values
None == "<None>"
Empty == "<{}>"

\* Python truthiness, as `not x` / `if x` / `x or y` use it.
Falsy(v) == v \in {None, Empty, ""}

\* print(x) writes str(x): None is written as the text None.
Str(v) == IF v = None THEN "None" ELSE v

SeqsUpTo(S, n) == UNION {[1..k -> S] : k \in 0..n}

GuideIds == {"s1"}
EpisodeIds == {"e1", "e2"}
Titles == {"Title1"}
Types == {"Station", "Audiobook", "Show"}
MediaTypes == {"mp3", "aac"}
Urls == {"A", "B"}

Cells == [GuideId : GuideIds \cup {None, ""},
          SEOInfo : Titles \cup {None, Empty},
          ContentInfo : Types \cup {None, Empty}]

\* A child item: at most one Cell-suffixed property (section 3 of the data model).
ChildItems == SeqsUpTo(Cells, 1)

Containers(key) == [tag : {"absent", "empty", "obj"}, key : {key}]
Entries == [List : Containers("List"), Gallery : Containers("Gallery")]
NoContainer == [tag |-> "absent", key |-> ""]

Candidates == [media_type : MediaTypes, url : Urls]
StreamBodies == SeqsUpTo(Candidates, MaxCand)

ChildLists == SeqsUpTo(EpisodeIds, Cardinality(EpisodeIds))
\* An item of a contents response: has = FALSE when it has no Children key.
PodItems == [has : {TRUE}, Children : ChildLists]
              \cup {[has |-> FALSE, Children |-> <<>>]}
PodResponses == SeqsUpTo(PodItems, MaxPodItems)

\* ---------------------------------------------------------- output events
\* k: "diag" | "title" | "ctype" | "url" are printed lines (v is the text);
\* k: "get_pod_info" | "get_stream" are lookups (v the argument, r the result).
Line(k, text) == [k |-> k, v |-> text, r |-> None]
Lookup(k, arg, res) == [k |-> k, v |-> arg, r |-> res]

\* ------------------------------------------------------------- get_stream
RECURSIVE FirstMp3(_, _)
FirstMp3(body, i) ==
    IF i > Len(body) THEN <<>>
    ELSE IF body[i].media_type = "mp3" THEN <<body[i].url>>
    ELSE FirstMp3(body, i + 1)

GetStream_FirstOnly(body) ==
    IF Len(body) > 0 THEN body[1].url ELSE None

GetStream(body) ==
    LET hit == FirstMp3(body, 1) IN
    IF hit # <<>> THEN hit[1]
    ELSE IF Len(body) > 0 THEN body[1].url
    ELSE None

\* ----------------------------------------------------------- get_pod_info
\* x.get("Children")
ChildrenOf(x) == IF x.has THEN x.Children ELSE <<>>

GetPodInfo_FirstItemOnly(items) ==
    IF Len(items) > 0 /\ ChildrenOf(items[1]) # <<>>
    THEN ChildrenOf(items[1])[1] ELSE None

RECURSIVE PodLoop(_, _)
PodLoop(items, i) ==
    IF i > Len(items) THEN None
    ELSE IF ChildrenOf(items[i]) # <<>> THEN ChildrenOf(items[i])[1]
    ELSE PodLoop(items, i + 1)

GetPodInfo(items) == PodLoop(items, 1)

\* ------------------------------------------------------- traversal helpers
\* item.get("List") or item.get("Gallery")
ChooseList_GalleryFirst(e) == IF e.Gallery.tag = "obj" THEN e.Gallery ELSE e.List

ChooseList(e) == IF e.List.tag = "obj" THEN e.List ELSE e.Gallery

\* next((value for key, value in ite.items() if key.endswith('Cell')), None)
FindCell(i) == IF Len(i) > 0 THEN <<i[1]>> ELSE <<>>

\* line 64: if not id: continue
SkipNoId_Never(g) == FALSE

SkipNoId(g) == Falsy(g)

\* line 71: if not seo_info
SeoMissing_Never(c) == FALSE

SeoMissing(c) == Falsy(c.SEOInfo)

\* line 76: content_info['Type'] == 'Audiobook'
IsAudiobook_Never(t) == FALSE

IsAudiobook(t) == t = "Audiobook"

\* line 79: content_info['Type'] != 'Station'
NeedsPodInfo_Never(t) == FALSE

NeedsPodInfo(t) == t # "Station"

\* line 81: print(get_stream(id))
StreamEvents_PrintFirst(g, res) ==
    <<Line("url", Str(res)), Lookup("get_stream", g, res)>>

StreamEvents(g, res) ==
    <<Lookup("get_stream", g, res), Line("url", Str(res))>>

NoFrame ==
    /\ called' = "none"
    /\ pod_info' = <<>>
    /\ stream_data' = <<>>
    /\ ret' = None

\* ------------------------------------------------------------------- Init
Init ==
    /\ pc = "outer"
    /\ ei = 0
    /\ ci = 0
    /\ item = [List |-> [tag |-> "absent", key |-> "List"],
               Gallery |-> [tag |-> "absent", key |-> "Gallery"]]
    /\ list = NoContainer
    /\ ite = <<>>
    /\ cell = <<>>
    /\ id = None
    /\ out = <<>>
    /\ called = "none"
    /\ pod_info = <<>>
    /\ stream_data = <<>>
    /\ ret = None

\* ---------------------------------------------------------------- actions
\* lines 54-57: the next favorite entry; entries with no container are skipped.
NextEntry ==
    /\ pc = "outer"
    /\ ei < MaxEntries
    /\ \E e \in Entries :
         /\ item' = e
         /\ list' = ChooseList(e)
         /\ pc' = IF ChooseList(e).tag # "obj" THEN "outer" ELSE "inner"
    /\ ei' = ei + 1
    /\ ci' = 0
    /\ ite' = <<>>
    /\ cell' = <<>>
    /\ id' = None
    /\ out' = <<>>
    /\ NoFrame

\* line 54: fav_data["Items"] is exhausted; the script ends.
Finish ==
    /\ pc = "outer"
    /\ pc' = "done"
    /\ NoFrame
    /\ UNCHANGED <<ei, ci, item, list, ite, cell, id, out>>

\* line 58: list["Items"] is exhausted; back to the outer loop.
EndItems ==
    /\ pc = "inner"
    /\ pc' = "outer"
    /\ NoFrame
    /\ UNCHANGED <<ei, ci, item, list, ite, cell, id, out>>

\* lines 58-63: the next child item, its Cell and its GuideId.  cell.get on
\* None raises AttributeError, which nothing catches.
ReadItem ==
    /\ pc = "inner"
    /\ ci < MaxItems
    /\ \E i \in ChildItems :
         /\ ite' = i
         /\ cell' = FindCell(i)
         /\ IF FindCell(i) = <<>>
            THEN /\ pc' = "crashed"
                 /\ id' = None
            ELSE /\ pc' = "L64"
                 /\ id' = FindCell(i)[1].GuideId
    /\ ci' = ci + 1
    /\ out' = <<>>
    /\ NoFrame
    /\ UNCHANGED <<ei, item, list>>

\* lines 64-68
CheckId ==
    /\ pc = "L64"
    /\ IF SkipNoId(id)
       THEN /\ pc' = "inner"
            /\ out' = out
       ELSE IF Falsy(id)
       THEN /\ pc' = "inner"
            /\ out' = Append(out, Line("diag", "didnt find cell!"))
       ELSE /\ pc' = "L69"
            /\ out' = out
    /\ UNCHANGED <<ei, ci, item, list, ite, cell, id, called, pod_info,
                   stream_data, ret>>

\* lines 69-74
CheckSeo ==
    /\ pc = "L69"
    /\ IF SeoMissing(cell[1])
       THEN /\ pc' = "inner"
            /\ out' = Append(out, Line("diag", "no seo info! skipping"))
       ELSE /\ pc' = "L75"
            /\ out' = Append(out, Line("title", cell[1].SEOInfo))
    /\ UNCHANGED <<ei, ci, item, list, ite, cell, id, called, pod_info,
                   stream_data, ret>>

\* lines 75-79
CheckContent ==
    /\ pc = "L75"
    /\ LET content_info == cell[1].ContentInfo IN
       IF Falsy(content_info)
       THEN /\ pc' = "L81"
            /\ out' = out
       ELSE IF IsAudiobook(content_info)
       THEN /\ pc' = "inner"
            /\ out' = out
       ELSE /\ out' = Append(out, Line("ctype", content_info))
            /\ pc' = IF NeedsPodInfo(content_info) THEN "L80" ELSE "L81"
    /\ UNCHANGED <<ei, ci, item, list, ite, cell, id, called, pod_info,
                   stream_data, ret>>

\* line 80: id = get_pod_info(id)
CallGetPodInfo ==
    /\ pc = "L80"
    /\ \E resp \in PodResponses :
         /\ pod_info' = resp
         /\ ret' = GetPodInfo(resp)
         /\ id' = GetPodInfo(resp)
         /\ out' = Append(out, Lookup("get_pod_info", id, GetPodInfo(resp)))
    /\ called' = "get_pod_info"
    /\ stream_data' = <<>>
    /\ pc' = "L81"
    /\ UNCHANGED <<ei, ci, item, list, ite, cell>>

\* line 81: print(get_stream(id))
CallGetStream ==
    /\ pc = "L81"
    /\ \E body \in StreamBodies :
         /\ stream_data' = body
         /\ ret' = GetStream(body)
         /\ out' = out \o StreamEvents(id, GetStream(body))
    /\ called' = "get_stream"
    /\ pod_info' = <<>>
    /\ pc' = "inner"
    /\ UNCHANGED <<ei, ci, item, list, ite, cell, id>>

Next ==
    \/ NextEntry
    \/ Finish
    \/ EndItems
    \/ ReadItem
    \/ CheckId
    \/ CheckSeo
    \/ CheckContent
    \/ CallGetPodInfo
    \/ CallGetStream

Spec == Init /\ [][Next]_vars

\* ------------------------------------------------------- claim vocabulary
Kinds(s) == [i \in DOMAIN s |-> s[i].k]
Has(k) == \E i \in DOMAIN out : out[i].k = k
IsPrefix(s, t) == Len(s) <= Len(t) /\ \A i \in DOMAIN s : s[i] = t[i]
\* A child item with a Cell has been read and is the one `out` belongs to.
HasCell == ci > 0 /\ cell # <<>>
\* The current child item has been dealt with (the loop is back at its head).
ItemDone == ci > 0 /\ pc \in {"inner", "outer", "done"}
Truthy(v) == ~Falsy(v)
Least(S) == CHOOSE i \in S : \A j \in S : i <= j
NoTitle == Line("title", None)

\* C1: get_stream returns the url of the first 'mp3' candidate in response
\* order; with no 'mp3' candidate, the url of the first candidate; with no
\* candidate at all, nothing.
C1_StreamSelection ==
    called = "get_stream" =>
        LET mp3 == {i \in DOMAIN stream_data : stream_data[i].media_type = "mp3"} IN
        /\ mp3 # {} => ret = stream_data[Least(mp3)].url
        /\ (mp3 = {} /\ stream_data # <<>>) => ret = stream_data[1].url
        /\ stream_data = <<>> => ret = None

C1_Witness ==
    /\ called = "get_stream"
    /\ stream_data = <<[media_type |-> "aac", url |-> "A"],
                       [media_type |-> "mp3", url |-> "B"]>>
    /\ ret = "B"

\* C2: an item that reaches stream resolution with a ContentInfo whose Type
\* is neither Station nor Audiobook passes get_stream the result of
\* get_pod_info(original GuideId); with no ContentInfo, or Type Station,
\* get_pod_info is not called and get_stream gets the original GuideId.
C2_PodcastIdReplaced ==
    (HasCell /\ Has("get_stream")) =>
        LET c == cell[1]
            s == out[Least({i \in DOMAIN out : out[i].k = "get_stream"})]
            pods == {i \in DOMAIN out : out[i].k = "get_pod_info"}
        IN IF Truthy(c.ContentInfo) /\ c.ContentInfo \notin {"Station", "Audiobook"}
           THEN /\ Cardinality(pods) = 1
                /\ \A i \in pods : out[i].v = c.GuideId /\ s.v = out[i].r
           ELSE /\ pods = {}
                /\ s.v = c.GuideId

C2_Witness ==
    /\ HasCell
    /\ cell[1].ContentInfo = "Show"
    /\ Lookup("get_pod_info", "s1", "e1") \in {out[i] : i \in DOMAIN out}
    /\ \E i \in DOMAIN out : out[i].k = "get_stream" /\ out[i].v = "e1"

\* C3 as claimed: an Audiobook item is skipped entirely: no title line, no
\* content-type line, no stream URL line, no get_pod_info, no get_stream.
C3_AudiobookNoOutput ==
    (HasCell /\ cell[1].ContentInfo = "Audiobook") =>
        \A i \in DOMAIN out :
            out[i].k \notin {"title", "ctype", "url", "get_pod_info", "get_stream"}

\* C3 as the code has it: for an Audiobook item no content-type line and no
\* stream URL line is printed and no lookup is made, but the title line is
\* printed before the skip when the Cell has a GuideId and an SEOInfo.
C3_AudiobookTitleOnly ==
    (HasCell /\ cell[1].ContentInfo = "Audiobook") =>
        /\ \A i \in DOMAIN out :
              out[i].k \notin {"ctype", "url", "get_pod_info", "get_stream"}
        /\ called = "none"
        /\ (ItemDone /\ Truthy(cell[1].GuideId) /\ Truthy(cell[1].SEOInfo))
              => out = <<Line("title", cell[1].SEOInfo)>>

C3_Witness ==
    /\ HasCell
    /\ cell[1].ContentInfo = "Audiobook"
    /\ pc = "inner"
    /\ out = <<Line("title", "Title1")>>

\* C4: a child item with no Cell-suffixed property is skipped: no title is
\* printed, no fault ends the run, and the traversal goes on.
C4_NoCellSkipped ==
    (ci > 0 /\ ite = <<>>) => (pc # "crashed" /\ ~Has("title"))

\* C5: a Cell with a GuideId but no SEOInfo gets exactly the 'no seo info!
\* skipping' diagnostic and nothing else, no lookup, and the loop goes on.
C5_NoSeoDiagnosticOnly ==
    (HasCell /\ Truthy(cell[1].GuideId) /\ Falsy(cell[1].SEOInfo)) =>
        /\ called = "none"
        /\ \/ pc \in {"L64", "L69"} /\ out = <<>>
           \/ ItemDone /\ out = <<Line("diag", "no seo info! skipping")>>

C5_Witness ==
    /\ HasCell
    /\ cell[1].GuideId = "s1"
    /\ cell[1].SEOInfo = None
    /\ pc = "inner"
    /\ out = <<Line("diag", "no seo info! skipping")>>

C7_FirstItemOnly ==
    called = "get_pod_info" =>
        ret = IF pod_info # <<>> /\ pod_info[1].has /\ pod_info[1].Children # <<>>
              THEN pod_info[1].Children[1]
              ELSE None

\* C7 as the code has it: get_pod_info returns the GuideId of the first child
\* of the first item, in Items order, that has a non-empty Children group,
\* and nothing when no item has one.
C7_FirstItemWithChildren ==
    called = "get_pod_info" =>
        LET withc == {i \in DOMAIN pod_info :
                         pod_info[i].has /\ pod_info[i].Children # <<>>} IN
        /\ withc # {} => ret = pod_info[Least(withc)].Children[1]
        /\ withc = {} => ret = None
        /\ id = ret

C7_Witness ==
    /\ called = "get_pod_info"
    /\ pod_info = <<[has |-> FALSE, Children |-> <<>>],
                    [has |-> TRUE, Children |-> <<"e2", "e1">>]>>
    /\ ret = "e2"

\* C8: with an empty candidate list get_stream returns nothing and no
\* non-empty text is printed in the item's URL position, while the title is
\* still printed and the run continues.
C8_EmptyBodyNoUrlText ==
    (called = "get_stream" /\ stream_data = <<>>) =>
        /\ ret = None
        /\ \A i \in DOMAIN out : out[i].k = "url" => out[i].v = ""
        /\ Has("title")
        /\ pc = "inner"

\* C9: processing is sequential in listing order: the position (entry,
\* child) never goes back, a new item is started only from a loop head, with
\* nothing yet printed or looked up for it, and the events of one item are
\* appended in the order title, content-type (if ContentInfo), get_pod_info
\* (if the type is not Station), get_stream, URL line.
ExpectedKinds(c) ==
    IF Falsy(c.GuideId) THEN <<>>
    ELSE IF Falsy(c.SEOInfo) THEN <<"diag">>
    ELSE <<"title">> \o
         (IF Falsy(c.ContentInfo) THEN <<"get_stream", "url">>
          ELSE IF c.ContentInfo = "Audiobook" THEN <<>>
          ELSE <<"ctype">>
               \o (IF c.ContentInfo # "Station" THEN <<"get_pod_info">> ELSE <<>>)
               \o <<"get_stream", "url">>)

C9_ItemOrder ==
    /\ HasCell => IsPrefix(Kinds(out), ExpectedKinds(cell[1]))
    /\ (HasCell /\ ItemDone) => Kinds(out) = ExpectedKinds(cell[1])
    /\ ~HasCell => out = <<>>

C9_Step ==
    /\ \/ ei' > ei
       \/ ei' = ei /\ ci' >= ci
    /\ (ei' = ei /\ ci' = ci) => IsPrefix(out, out')
    /\ (ei' # ei \/ ci' # ci) => (pc \in {"outer", "inner"} /\ out' = <<>>)

C9_Sequential == [](C9_ItemOrder) /\ [][C9_Step]_vars

C9_Witness ==
    /\ ei > 1
    /\ ci > 1
    /\ HasCell
    /\ cell[1].ContentInfo = "Show"
    /\ Kinds(out) = <<"title", "ctype", "get_pod_info", "get_stream", "url">>

\* C10: a Cell with no GuideId, or an empty one, is skipped silently: no
\* line, no lookup, the loop goes on; and the 'didnt find cell!' diagnostic
\* is never printed.
C10_NoIdSilentSkip ==
    /\ (HasCell /\ Falsy(cell[1].GuideId)) =>
          /\ out = <<>>
          /\ called = "none"
          /\ pc \in {"L64", "inner", "outer", "done"}
    /\ \A i \in DOMAIN out : out[i].v # "didnt find cell!"

C10_Witness ==
    /\ HasCell
    /\ cell[1].GuideId = ""
    /\ cell[1].SEOInfo = "Title1"
    /\ pc = "inner"
    /\ ci > 1
    /\ out = <<>>

====
